---- MODULE Spec2Model ----
(***************************************************************************)
(* Telecom cart API: the cart orchestrator (CartService) over the          *)
(* simulated context provider (SalesforceCartClient).                      *)
(*                                                                         *)
(* Money is counted in cents (1399.99 is 139999).  Every amount the        *)
(* program holds is a double within a fraction of 10^-9 of a cent value,   *)
(* so the cents integer identifies it; a product by the tax rate is        *)
(* counted in 1/100 cent ("pips") before toFixed(2) rounds it.             *)
(*                                                                         *)
(* JavaScript arrays are objects: the model keeps a heap of item arrays    *)
(* (arrays), and the Provider's cartItems map and the Orchestrator's       *)
(* shadowState map hold array references (indices into the heap).          *)
(***************************************************************************)
EXTENDS Integers, Sequences, FiniteSets, TLC

(* ---------------- bounds of the model ---------------- *)
MaxTime == 1
MaxCarts == 1
MaxContexts == 2
MaxItemIds == 3
SmallMaxItems == 2
MaxPricedItems == 5
MaxRejectItemIds == 2

(* ---------------- configuration ---------------- *)
\* config.salesforce.contextTTL in milliseconds, the service being started
\* with SF_CONTEXT_TTL set to this
ContextTTL == 1
\* expireContext moves expiresAt to Date.now() - 1000
ExpireBack == 1000
\* config.cart.taxRate = 0.13
TaxRatePct == 13
\* config.cart.maxItemsPerCart default
DefaultMaxItems == 50

VARIABLES
    now,              \* the wall clock (new Date())
    maxItemsPerCart,  \* config.cart.maxItemsPerCart, read once at start-up
    contexts,         \* context objects by context id: [cartId, expiresAt, items, held]
    arrays,           \* heap of item arrays, by reference
    contextCache,     \* CartService.contextCache: cart id -> context id
    shadowState,      \* CartService.shadowState: cart id -> array reference
    nextItem,         \* next fresh item id (nanoid)
    seen,             \* item ids the client has received in Cart views
    recoveredAt,      \* per cart, the next fresh item id when it was last recovered (0: never)
    inflight,         \* per caller, the position and locals of its addItem call in flight
    last              \* the request just handled and its outcome

vars == <<now, maxItemsPerCart, contexts, arrays, contextCache, shadowState,
          nextItem, seen, recoveredAt, inflight, last>>

(* ---------------- catalog (CartService.products) ---------------- *)
products ==
    [ phone_iphone15    |-> [id |-> "phone_iphone15",    name |-> "iPhone 15 Pro",      type |-> "PHONE", price |-> 139999],
      phone_samsung_s24 |-> [id |-> "phone_samsung_s24", name |-> "Samsung Galaxy S24", type |-> "PHONE", price |-> 119999],
      plan_unlimited    |-> [id |-> "plan_unlimited",    name |-> "Unlimited Plan",     type |-> "PLAN",  price |-> 8500],
      plan_5gb          |-> [id |-> "plan_5gb",          name |-> "5GB Plan",           type |-> "PLAN",  price |-> 5500],
      addon_insurance   |-> [id |-> "addon_insurance",   name |-> "Device Insurance",   type |-> "ADDON", price |-> 1200],
      addon_earbuds     |-> [id |-> "addon_earbuds",     name |-> "Wireless Earbuds",   type |-> "ADDON", price |-> 19999] ]

(* ---------------- inputs of the requests ---------------- *)
ProductInputs == {"phone_iphone15", "plan_unlimited", "addon_insurance"}
AddQuantityInputs == {1}
UpdateQuantityInputs == {2}


(* ---------------- sequence helpers ---------------- *)
RECURSIVE SumTotals(_)
\* items.reduce((sum, item) => sum + item.totalPrice, 0)
SumTotals(items) ==
    IF items = << >> THEN 0
    ELSE Head(items).totalPrice + SumTotals(Tail(items))

\* items.filter(item => item.productType === t).length
CountType(items, t) == Cardinality({i \in 1..Len(items) : items[i].productType = t})

\* items.findIndex(item => item.id === itemId); 0 stands for -1
FindIndex(items, itemId) ==
    IF \E i \in 1..Len(items) : items[i].id = itemId
    THEN CHOOSE i \in 1..Len(items) :
            /\ items[i].id = itemId
            /\ \A j \in 1..(i - 1) : items[j].id # itemId
    ELSE 0

\* items.splice(index, 1)
Splice(items, index) ==
    [i \in 1..(Len(items) - 1) |-> IF i < index THEN items[i] ELSE items[i + 1]]

(* ---------------- utils/cart: pricing ---------------- *)
RECURSIVE Pow2(_)
Pow2(n) == IF n = 0 THEN 1 ELSE 2 * Pow2(n - 1)

RECURSIVE Pow2Mod25(_)
Pow2Mod25(n) == IF n = 0 THEN 1 ELSE (2 * Pow2Mod25(n - 1)) % 25

RECURSIVE BinadeUp(_, _)
\* the largest e >= e0 with 2^e <= 13x/200
BinadeUp(x, e) == IF 200 * Pow2(e + 1) <= 13 * x THEN BinadeUp(x, e + 1) ELSE e

RECURSIVE BinadeDown(_, _)
\* the smallest f >= f0 with 2^(-f) <= 13x/200
BinadeDown(x, f) == IF 200 > 13 * x * Pow2(f) THEN BinadeDown(x, f + 1) ELSE f

\* Number.prototype.toFixed(2) of a value that is exactly pips/10000, pips >= 0:
\* the integer n of cents nearest to it, the larger n on a tie.
ToFixed2(pips) == (pips + 50) \div 100

\* The double subtotal * 0.13 when the exact decimal product ends in ...5 pips
\* (subtotal = k + 0.50, which a double holds exactly).  The double 0.13 is
\* M / 2^55 with 25 * M = 13 * 2^53 + 4, so the exact product is
\* T + x / (25 * 2^54), T = 13x/200, x = 2k + 1.  In units of the spacing
\* 2^(e-52) of the doubles of T's binade, T is (25q + rho) / 25 and the product
\* is x / (100 * 2^e) above it; round-to-nearest-even gives a double that is
\* at least T exactly in the cases below.  toFixed(2) then yields the upper
\* cent if the double is at least T and the lower cent otherwise.
TaxTieRoundsUp(subtotal) ==
    LET x == subtotal \div 50 IN
    IF 13 * x >= 200
    THEN LET e   == BinadeUp(x, 0)
             rho == (13 * (x % 25) * Pow2Mod25(49 - e)) % 25
         IN  rho = 0 \/ 4 * rho * Pow2(e) + x > 50 * Pow2(e)
    ELSE LET f   == BinadeDown(x, 1)
             rho == (13 * (x % 25) * Pow2Mod25(49 + f)) % 25
             lhs == 4 * rho + x * Pow2(f)
         IN  rho = 0 \/ lhs > 50 \/ (lhs = 50 /\ rho % 2 = 1)

\* Number((unitPrice * quantity).toFixed(2))
calculateItemTotal(unitPrice, quantity) == ToFixed2(unitPrice * quantity * 100)

\* Number(items.reduce(...).toFixed(2))
calculateSubtotal(items) == ToFixed2(SumTotals(items) * 100)

\* Number((subtotal * config.cart.taxRate).toFixed(2))
calculateTax(subtotal) ==
    LET pips == subtotal * TaxRatePct IN
    IF pips % 100 # 50 THEN ToFixed2(pips)
    ELSE IF TaxTieRoundsUp(subtotal) THEN pips \div 100 + 1
    ELSE pips \div 100

\* Number((subtotal + tax).toFixed(2))
calculateTotal(subtotal, tax) == ToFixed2((subtotal + tax) * 100)

(* ---------------- utils/cart: business rules ---------------- *)
MaxExceededMessage(max) == "Cart exceeds maximum of " \o ToString(max) \o " items"
MaxReachedMessage(max) == "Cart has reached maximum of " \o ToString(max) \o " items"
PlanNeedsPhoneMessage == "Cart contains plans but no phone. Plans require a phone."
OnePhoneMessage == "Only one phone is allowed per cart"
OnePlanMessage == "Only one plan is allowed per cart"
InvalidQuantitiesMessage == "Cart contains items with invalid quantities"

\* validateCartRules as it would be with the phone and plan limits reported
\* before the plan-requires-phone rule
validateCartRulesLimitsFirst(items, max) ==
    LET e1 == IF Len(items) > max THEN <<MaxExceededMessage(max)>> ELSE << >>
        e2 == IF CountType(items, "PLAN") > 0 /\ CountType(items, "PHONE") = 0
              THEN <<PlanNeedsPhoneMessage>> ELSE << >>
        e3 == IF CountType(items, "PHONE") > 1 THEN <<OnePhoneMessage>> ELSE << >>
        e4 == IF CountType(items, "PLAN") > 1 THEN <<OnePlanMessage>> ELSE << >>
        e5 == IF \E i \in 1..Len(items) : items[i].quantity <= 0
              THEN <<InvalidQuantitiesMessage>> ELSE << >>
        errors == e1 \o e3 \o e4 \o e2 \o e5
    IN  [valid |-> (Len(errors) = 0), errors |-> errors]

\* utils/cart validateCartRules; quantities are integers here, so the
\* !Number.isInteger test of the last rule never fires
validateCartRules(items, max) ==
    LET e1 == IF Len(items) > max THEN <<MaxExceededMessage(max)>> ELSE << >>
        hasPhone == \E i \in 1..Len(items) : items[i].productType = "PHONE"
        plans == CountType(items, "PLAN")
        e2 == IF plans > 0 /\ ~hasPhone THEN <<PlanNeedsPhoneMessage>> ELSE << >>
        e3 == IF CountType(items, "PHONE") > 1 THEN <<OnePhoneMessage>> ELSE << >>
        e4 == IF plans > 1 THEN <<OnePlanMessage>> ELSE << >>
        e5 == IF \E i \in 1..Len(items) : items[i].quantity <= 0
              THEN <<InvalidQuantitiesMessage>> ELSE << >>
        errors == e1 \o e2 \o e3 \o e4 \o e5
    IN  [valid |-> (Len(errors) = 0), errors |-> errors]

\* canAddItemType as it would be with the plan-requires-phone rule enforced on add
canAddItemTypeRequiringPhone(items, productType, max) ==
    IF Len(items) >= max
    THEN [allowed |-> FALSE, reason |-> MaxReachedMessage(max)]
    ELSE IF productType = "PHONE" /\ CountType(items, "PHONE") >= 1
    THEN [allowed |-> FALSE, reason |-> OnePhoneMessage]
    ELSE IF productType = "PLAN" /\ CountType(items, "PLAN") >= 1
    THEN [allowed |-> FALSE, reason |-> OnePlanMessage]
    ELSE IF productType = "PLAN" /\ CountType(items, "PHONE") = 0
    THEN [allowed |-> FALSE, reason |-> PlanNeedsPhoneMessage]
    ELSE [allowed |-> TRUE, reason |-> ""]

\* utils/cart canAddItemType: the item count first, then the phone and plan limits
canAddItemType(items, productType, max) ==
    IF Len(items) >= max
    THEN [allowed |-> FALSE, reason |-> MaxReachedMessage(max)]
    ELSE IF productType = "PHONE" /\ CountType(items, "PHONE") >= 1
    THEN [allowed |-> FALSE, reason |-> OnePhoneMessage]
    ELSE IF productType = "PLAN" /\ CountType(items, "PLAN") >= 1
    THEN [allowed |-> FALSE, reason |-> OnePlanMessage]
    ELSE [allowed |-> TRUE, reason |-> ""]

\* CartService.buildCart
buildCart(cartId, items) ==
    LET subtotal == calculateSubtotal(items)
        tax == calculateTax(subtotal)
    IN  [id |-> cartId, items |-> items, subtotal |-> subtotal, tax |-> tax,
         total |-> calculateTotal(subtotal, tax)]

(* ---------------- SalesforceCartClient (the context provider) ---------------- *)
\* isContextValid as it would be with a context still valid at its expiry instant
isContextValidUntilExpiry(ctxs, contextId, t) ==
    /\ contextId \in 1..Len(ctxs)
    /\ ctxs[contextId].held
    /\ t <= ctxs[contextId].expiresAt

\* isContextValid: the contexts map holds the id and new Date() < expiresAt
isContextValid(ctxs, contextId, t) ==
    /\ contextId \in 1..Len(ctxs)
    /\ ctxs[contextId].held
    /\ t < ctxs[contextId].expiresAt

\* createContext as it would be with a context that expires at its creation
createContextWithoutTTL(ctxs, arrs, cartId, t) ==
    [contextId |-> Len(ctxs) + 1,
     contexts  |-> Append(ctxs, [cartId |-> cartId, expiresAt |-> t,
                                 items |-> Len(arrs) + 1, held |-> TRUE]),
     arrays    |-> Append(arrs, << >>)]

\* createContext: a fresh context id, expiresAt = now + TTL, a new empty array
createContext(ctxs, arrs, cartId, t) ==
    [contextId |-> Len(ctxs) + 1,
     contexts  |-> Append(ctxs, [cartId |-> cartId, expiresAt |-> t + ContextTTL,
                                 items |-> Len(arrs) + 1, held |-> TRUE]),
     arrays    |-> Append(arrs, << >>)]

\* the item SalesforceCartClient.addItem stores: { id: itemId, ...itemRequest }
NewItem(itemId, request) ==
    [id |-> itemId, productId |-> request.productId, productName |-> request.productName,
     productType |-> request.productType, quantity |-> request.quantity,
     unitPrice |-> request.unitPrice, totalPrice |-> request.totalPrice]

\* the updated item as it would be with the total price left as it was
UpdatedItemKeepingTotal(item, quantity) == [item EXCEPT !.quantity = quantity]

\* the item SalesforceCartClient.updateItem stores; the product is not rounded
UpdatedItem(item, quantity) ==
    [item EXCEPT !.quantity = quantity, !.totalPrice = item.unitPrice * quantity]

(* ---------------- CartService (the orchestrator) ---------------- *)
\* the replayed request as it would be with the quantity reset to one
ReplayRequestOfOne(item) ==
    [productId |-> item.productId, productName |-> item.productName,
     productType |-> item.productType, quantity |-> 1,
     unitPrice |-> item.unitPrice, totalPrice |-> item.unitPrice]

\* the request ensureValidContext replays for a shadow item
ReplayRequest(item) ==
    [productId |-> item.productId, productName |-> item.productName,
     productType |-> item.productType, quantity |-> item.quantity,
     unitPrice |-> item.unitPrice, totalPrice |-> item.totalPrice]

\* the replay as it would be if it walked the shadow from its last item
ReplayItemsBackwards(shadowItems, firstId) ==
    [i \in 1..Len(shadowItems) |->
        NewItem(firstId + i - 1, ReplayRequest(shadowItems[Len(shadowItems) + 1 - i]))]

\* the items of the new context after the replay loop, ids from firstId on
ReplayItems(shadowItems, firstId) ==
    [i \in 1..Len(shadowItems) |-> NewItem(firstId + i - 1, ReplayRequest(shadowItems[i]))]

\* the test of ensureValidContext: new Date() > context.expiresAt
IsExpiredForService(expiresAt, t) == t > expiresAt

\* ensureValidContext as it would be if it recreated the context on every call
ensureValidContextAlwaysRecreating(cartId) ==
    LET created == createContext(contexts, arrays, cartId, now)
        shadowItems == arrays[shadowState[cartId]]
    IN  [contextId |-> created.contextId,
         contexts  |-> created.contexts,
         arrays    |-> [created.arrays EXCEPT
                           ![Len(arrays) + 1] = ReplayItems(shadowItems, nextItem)],
         nextItem  |-> nextItem + Len(shadowItems),
         recovered |-> TRUE]

\* ensureValidContext(cartId) for a cart the cache holds: the provider state
\* and the cache entry it leaves, and the context id it returns
ensureValidContext(cartId) ==
    LET context == contexts[contextCache[cartId]] IN
    IF IsExpiredForService(context.expiresAt, now)
    THEN LET created == createContext(contexts, arrays, cartId, now)
             shadowItems == arrays[shadowState[cartId]]
         IN  [contextId |-> created.contextId,
              contexts  |-> created.contexts,
              arrays    |-> [created.arrays EXCEPT
                                ![Len(arrays) + 1] = ReplayItems(shadowItems, nextItem)],
              nextItem  |-> nextItem + Len(shadowItems),
              recovered |-> TRUE]
    ELSE [contextId |-> contextCache[cartId], contexts |-> contexts, arrays |-> arrays,
          nextItem |-> nextItem, recovered |-> FALSE]

\* An array that no map refers to any more is unreachable: its cell of the
\* heap is cleared.  The maps are the Provider's cartItems (the contexts it
\* holds) and the Orchestrator's shadowState.
Collect(arrs, ctxs, shadow) ==
    [r \in 1..Len(arrs) |->
        IF \/ \E k \in 1..Len(ctxs) : ctxs[k].held /\ ctxs[k].items = r
           \/ \E c \in 1..Len(shadow) : shadow[c] = r
        THEN arrs[r]
        ELSE << >>]

NoView == [id |-> 0, items |-> << >>, subtotal |-> 0, tax |-> 0, total |-> 0]
NoValidation == [valid |-> TRUE, errors |-> << >>]
\* (rawQuantity: the quantity of a request body the validation layer refused, in halves;
\*  contextId: the context a direct call of the Provider names)
NoRequest == [op |-> "none", cartId |-> 0, productId |-> "", itemId |-> 0, quantity |-> 0,
              rawQuantity |-> 0, contextId |-> 0]

Outcome(request, kind, message, recovered, view, validation) ==
    [op |-> request.op, cartId |-> request.cartId, productId |-> request.productId,
     itemId |-> request.itemId, quantity |-> request.quantity,
     rawQuantity |-> request.rawQuantity, contextId |-> request.contextId,
     kind |-> kind, message |-> message, recovered |-> recovered,
     view |-> view, validation |-> validation, delivered |-> FALSE]

Threw(request, kind, message, recovered) ==
    Outcome(request, kind, message, recovered, NoView, NoValidation)

Returned(request, recovered, view) ==
    Outcome(request, "ok", "", recovered, view, NoValidation)

ItemIds(items) == {items[i].id : i \in 1..Len(items)}

\* what ensureValidContext has committed when the handler goes on or throws
CommitContext(cartId, E) ==
    /\ contexts' = E.contexts
    /\ contextCache' = [contextCache EXCEPT ![cartId] = E.contextId]
    /\ recoveredAt' = IF E.recovered THEN [recoveredAt EXCEPT ![cartId] = nextItem]
                      ELSE recoveredAt
    /\ UNCHANGED inflight

\* a request that fails before or without touching any state
Rejects(outcome) ==
    /\ last' = outcome
    /\ UNCHANGED <<now, maxItemsPerCart, contexts, arrays, contextCache, shadowState,
                   nextItem, seen, recoveredAt, inflight>>

\* a request that throws after ensureValidContext has run
ThrowsAfterEnsure(cartId, E, request, kind, message) ==
    /\ CommitContext(cartId, E)
    /\ arrays' = E.arrays
    /\ nextItem' = E.nextItem
    /\ last' = Threw(request, kind, message, E.recovered)
    /\ UNCHANGED <<now, maxItemsPerCart, shadowState, seen>>

KnownCart(cartId) == cartId \in 1..Len(contextCache)

\* an absent cart reported with a plain Error
CartNotFoundAsPlainError(request) == Rejects(Threw(request, "Error", "CART_NOT_FOUND", FALSE))

\* ensureValidContext: throw new NotFoundError('Cart', cartId)
CartNotFound(request) == Rejects(Threw(request, "NotFoundError", "Cart", FALSE))

\* the product looked up only after the cart's context has been resolved
ProductNotFoundAfterResolve(request) ==
    IF ~KnownCart(request.cartId) THEN CartNotFound(request)
    ELSE ThrowsAfterEnsure(request.cartId, ensureValidContext(request.cartId), request,
                           "NotFoundError", "Product")

\* addItem: throw new NotFoundError('Product', productId), first thing
ProductNotFound(request) == Rejects(Threw(request, "NotFoundError", "Product", FALSE))

(* ---------------- addItem calls in flight ---------------- *)
\* the callers that may have an addItem call in flight at the same time
MaxCallers == 2
Callers == 1..MaxCallers

NoItem == NewItem(0, [productId |-> "", productName |-> "", productType |-> "",
                      quantity |-> 0, unitPrice |-> 0, totalPrice |-> 0])

\* a call not made yet.  pc is the await the call is suspended at; contextId,
\* shadowRef, replayed, itemsRef and newItem are the locals of addItem and of
\* ensureValidContext; kind, message and view are the settled outcome.
NoCall ==
    [pc |-> "start", cartId |-> 0, productId |-> "", quantity |-> 0, contextId |-> 0,
     shadowRef |-> 0, replayed |-> 0, itemsRef |-> 0, newItem |-> NoItem,
     recovered |-> FALSE, kind |-> "none", message |-> "", view |-> NoView]

(* ---------------- the state after construction ---------------- *)
InitWith(max) ==
    /\ now = 0
    /\ maxItemsPerCart = max
    /\ contexts = << >>
    /\ arrays = << >>
    /\ contextCache = << >>
    /\ shadowState = << >>
    /\ nextItem = 1
    /\ seen = {}
    /\ recoveredAt = << >>
    /\ inflight = [p \in Callers |-> NoCall]
    /\ last = Threw(NoRequest, "none", "", FALSE)

\* the service started with MAX_ITEMS_PER_CART set to a small number
Init == InitWith(SmallMaxItems)

(* ---------------- CartService operations ---------------- *)
initializeCart ==
    LET cartId == Len(contextCache) + 1
        created == createContext(contexts, arrays, cartId, now)
        request == [NoRequest EXCEPT !.op = "initializeCart", !.cartId = cartId]
    IN  /\ contexts' = created.contexts
        /\ arrays' = Append(created.arrays, << >>)
        /\ contextCache' = Append(contextCache, created.contextId)
        /\ shadowState' = Append(shadowState, Len(created.arrays) + 1)
        /\ recoveredAt' = Append(recoveredAt, 0)
        /\ UNCHANGED inflight
        /\ last' = Returned(request, FALSE, buildCart(cartId, << >>))
        /\ UNCHANGED <<now, maxItemsPerCart, nextItem, seen>>

\* getCart as it would be without the write of the shadow
getCartKeepingShadow(cartId) ==
    LET request == [NoRequest EXCEPT !.op = "getCart", !.cartId = cartId] IN
    IF ~KnownCart(cartId) THEN CartNotFound(request)
    ELSE LET E == ensureValidContext(cartId) IN
         IF ~isContextValid(E.contexts, E.contextId, now)
         THEN ThrowsAfterEnsure(cartId, E, request, "Error", "SF_CONTEXT_EXPIRED")
         ELSE LET view == buildCart(cartId, E.arrays[E.contexts[E.contextId].items])
              IN  /\ CommitContext(cartId, E)
                  /\ arrays' = E.arrays
                  /\ nextItem' = E.nextItem
                  /\ seen' = seen \cup ItemIds(view.items)
                  /\ last' = Returned(request, E.recovered, view)
                  /\ UNCHANGED <<now, maxItemsPerCart, shadowState>>

getCart(cartId) ==
    LET request == [NoRequest EXCEPT !.op = "getCart", !.cartId = cartId] IN
    IF ~KnownCart(cartId) THEN CartNotFound(request)
    ELSE LET E == ensureValidContext(cartId) IN
         IF ~isContextValid(E.contexts, E.contextId, now)
         THEN ThrowsAfterEnsure(cartId, E, request, "Error", "SF_CONTEXT_EXPIRED")
         ELSE LET ref == E.contexts[E.contextId].items
                  view == buildCart(cartId, E.arrays[ref])
                  \* this.shadowState.set(cartId, items): the shadow is now that array
                  shadow == [shadowState EXCEPT ![cartId] = ref]
              IN  /\ CommitContext(cartId, E)
                  /\ arrays' = Collect(E.arrays, E.contexts, shadow)
                  /\ nextItem' = E.nextItem
                  /\ shadowState' = shadow
                  /\ seen' = seen \cup ItemIds(view.items)
                  /\ last' = Returned(request, E.recovered, view)
                  /\ UNCHANGED <<now, maxItemsPerCart>>

addItem(cartId, productId, quantity) ==
    LET request == [NoRequest EXCEPT !.op = "addItem", !.cartId = cartId,
                                     !.productId = productId, !.quantity = quantity] IN
    IF productId \notin DOMAIN products
    THEN ProductNotFound(request)
    ELSE IF ~KnownCart(cartId) THEN CartNotFound(request)
    ELSE LET product == products[productId]
             E == ensureValidContext(cartId)
         IN
         IF ~isContextValid(E.contexts, E.contextId, now)
         THEN ThrowsAfterEnsure(cartId, E, request, "Error", "SF_CONTEXT_EXPIRED")
         ELSE LET ref == E.contexts[E.contextId].items
                  canAdd == canAddItemType(E.arrays[ref], product.type, maxItemsPerCart)
              IN
              IF ~canAdd.allowed
              THEN ThrowsAfterEnsure(cartId, E, request, "Error", canAdd.reason)
              ELSE LET newItem == NewItem(E.nextItem,
                                     [productId |-> product.id, productName |-> product.name,
                                      productType |-> product.type, quantity |-> quantity,
                                      unitPrice |-> product.price,
                                      totalPrice |-> calculateItemTotal(product.price, quantity)])
                       \* sfClient.addItem: items.push(newItem)
                       pushed == [E.arrays EXCEPT ![ref] = Append(@, newItem)]
                       \* shadowItems.push(newItem), on whatever array the shadow refers to
                       synced == [pushed EXCEPT ![shadowState[cartId]] = Append(@, newItem)]
                       view == buildCart(cartId, synced[shadowState[cartId]])
                   IN  /\ CommitContext(cartId, E)
                       /\ arrays' = synced
                       /\ nextItem' = E.nextItem + 1
                       /\ seen' = seen \cup ItemIds(view.items)
                       /\ last' = Returned(request, E.recovered, view)
                       /\ UNCHANGED <<now, maxItemsPerCart, shadowState>>

updateItem(cartId, itemId, quantity) ==
    LET request == [NoRequest EXCEPT !.op = "updateItem", !.cartId = cartId,
                                     !.itemId = itemId, !.quantity = quantity] IN
    IF ~KnownCart(cartId) THEN CartNotFound(request)
    ELSE LET E == ensureValidContext(cartId) IN
         IF ~isContextValid(E.contexts, E.contextId, now)
         THEN ThrowsAfterEnsure(cartId, E, request, "Error", "SF_CONTEXT_EXPIRED")
         ELSE LET ref == E.contexts[E.contextId].items
                  itemIndex == FindIndex(E.arrays[ref], itemId)
              IN
              IF itemIndex = 0
              THEN ThrowsAfterEnsure(cartId, E, request, "Error", "ITEM_NOT_FOUND")
              ELSE LET updatedItem == UpdatedItem(E.arrays[ref][itemIndex], quantity)
                       stored == [E.arrays EXCEPT ![ref][itemIndex] = updatedItem]
                       sref == shadowState[cartId]
                       index == FindIndex(stored[sref], itemId)
                       synced == IF index # 0
                                 THEN [stored EXCEPT ![sref][index] = updatedItem]
                                 ELSE stored
                       view == buildCart(cartId, synced[sref])
                   IN  /\ CommitContext(cartId, E)
                       /\ arrays' = synced
                       /\ nextItem' = E.nextItem
                       /\ seen' = seen \cup ItemIds(view.items)
                       /\ last' = Returned(request, E.recovered, view)
                       /\ UNCHANGED <<now, maxItemsPerCart, shadowState>>

removeItem(cartId, itemId) ==
    LET request == [NoRequest EXCEPT !.op = "removeItem", !.cartId = cartId,
                                     !.itemId = itemId] IN
    IF ~KnownCart(cartId) THEN CartNotFound(request)
    ELSE LET E == ensureValidContext(cartId) IN
         IF ~isContextValid(E.contexts, E.contextId, now)
         THEN ThrowsAfterEnsure(cartId, E, request, "Error", "SF_CONTEXT_EXPIRED")
         ELSE LET ref == E.contexts[E.contextId].items
                  itemIndex == FindIndex(E.arrays[ref], itemId)
              IN
              IF itemIndex = 0
              THEN ThrowsAfterEnsure(cartId, E, request, "Error", "ITEM_NOT_FOUND")
              ELSE LET removed == [E.arrays EXCEPT ![ref] = Splice(@, itemIndex)]
                       sref == shadowState[cartId]
                       index == FindIndex(removed[sref], itemId)
                       synced == IF index # 0
                                 THEN [removed EXCEPT ![sref] = Splice(@, index)]
                                 ELSE removed
                       view == buildCart(cartId, synced[sref])
                   IN  /\ CommitContext(cartId, E)
                       /\ arrays' = synced
                       /\ nextItem' = E.nextItem
                       /\ seen' = seen \cup ItemIds(view.items)
                       /\ last' = Returned(request, E.recovered, view)
                       /\ UNCHANGED <<now, maxItemsPerCart, shadowState>>

validateCart(cartId) ==
    LET request == [NoRequest EXCEPT !.op = "validateCart", !.cartId = cartId] IN
    IF ~KnownCart(cartId) THEN CartNotFound(request)
    ELSE LET E == ensureValidContext(cartId) IN
         IF ~isContextValid(E.contexts, E.contextId, now)
         THEN ThrowsAfterEnsure(cartId, E, request, "Error", "SF_CONTEXT_EXPIRED")
         ELSE LET ref == E.contexts[E.contextId].items IN
              /\ CommitContext(cartId, E)
              /\ arrays' = E.arrays
              /\ nextItem' = E.nextItem
              /\ last' = Outcome(request, "ok", "", E.recovered, NoView,
                                 validateCartRules(E.arrays[ref], maxItemsPerCart))
              /\ UNCHANGED <<now, maxItemsPerCart, shadowState, seen>>

(* ---------------- provider hooks and the clock ---------------- *)
\* expireContext: expiresAt = Date.now() - 1000 when the map holds the context
expireContext(contextId) ==
    /\ contextId \in 1..Len(contexts)
    /\ contexts[contextId].held
    /\ contexts' = [contexts EXCEPT ![contextId].expiresAt = now - ExpireBack]
    /\ UNCHANGED <<now, maxItemsPerCart, arrays, contextCache, shadowState, nextItem, seen, recoveredAt, inflight,
                   last>>

\* the contexts cleanupExpiredContexts deletes: now > context.expiresAt
SweptContexts == {k \in 1..Len(contexts) : contexts[k].held /\ now > contexts[k].expiresAt}

cleanupExpiredContexts ==
    /\ contexts' = [k \in 1..Len(contexts) |->
                       IF k \in SweptContexts THEN [contexts[k] EXCEPT !.held = FALSE]
                       ELSE contexts[k]]
    /\ arrays' = Collect(arrays, contexts', shadowState)
    /\ last' = [Threw([NoRequest EXCEPT !.op = "cleanupExpiredContexts"], "none", "", FALSE)
                  EXCEPT !.quantity = Cardinality(SweptContexts)]
    /\ UNCHANGED <<now, maxItemsPerCart, contextCache, shadowState, nextItem, seen, recoveredAt, inflight>>

\* time passes between two requests
Tick ==
    /\ now' = now + 1
    /\ UNCHANGED <<maxItemsPerCart, contexts, arrays, contextCache, shadowState,
                   nextItem, seen, recoveredAt, inflight, last>>

\* the outcome has gone back to the caller; the next request can come in
Respond ==
    /\ last' = Threw(NoRequest, "none", "", FALSE)
    /\ UNCHANGED <<now, maxItemsPerCart, contexts, arrays, contextCache, shadowState,
                   nextItem, seen, recoveredAt, inflight>>

(* ---------------- the specification ---------------- *)
\* the carts a request names: the initialized ones
CartInputs == 1..Len(contextCache)

\* the item ids a request names: those the client has seen in Cart views
ItemIdInputs == seen

\* the caps of the model on the fresh ids
WithinCaps == Len(contexts') <= MaxContexts /\ nextItem' <= MaxItemIds + 1

\* requests are serialized: one is handled when the previous outcome has gone out
Idle == last.op = "none"

Next ==
    \/ Idle /\ Len(contextCache) < MaxCarts /\ initializeCart /\ WithinCaps
    \/ Idle /\ \E c \in CartInputs : getCart(c) /\ WithinCaps
    \/ Idle /\ \E c \in CartInputs, p \in ProductInputs, q \in AddQuantityInputs :
                  addItem(c, p, q) /\ WithinCaps
    \/ Idle /\ \E c \in CartInputs, i \in ItemIdInputs, q \in UpdateQuantityInputs :
                  updateItem(c, i, q) /\ WithinCaps
    \/ Idle /\ \E c \in CartInputs, i \in ItemIdInputs : removeItem(c, i) /\ WithinCaps
    \/ Idle /\ \E c \in CartInputs : validateCart(c) /\ WithinCaps
    \/ Idle /\ \E c \in 1..Len(contextCache) : expireContext(contextCache[c])
    \/ Idle /\ cleanupExpiredContexts
    \/ Idle /\ now < MaxTime /\ Tick
    \/ ~Idle /\ Respond

Spec == Init /\ [][Next]_vars

(* ---------------- a session without expiry, outcomes remembered ---------------- *)
\* the outcome has gone back to the caller, who still knows it when the next
\* request is made
Deliver ==
    /\ last' = [last EXCEPT !.delivered = TRUE]
    /\ UNCHANGED <<now, maxItemsPerCart, contexts, arrays, contextCache, shadowState,
                   nextItem, seen, recoveredAt, inflight>>

Ready == Idle \/ last.delivered

NextReads ==
    \/ Ready /\ Len(contextCache) < MaxCarts /\ initializeCart /\ WithinCaps
    \/ Ready /\ \E c \in CartInputs : getCart(c) /\ WithinCaps
    \/ Ready /\ \E c \in CartInputs, p \in ProductInputs, q \in AddQuantityInputs :
                   addItem(c, p, q) /\ WithinCaps
    \/ Ready /\ \E c \in CartInputs, i \in ItemIdInputs : removeItem(c, i) /\ WithinCaps
    \/ Ready /\ \E c \in CartInputs : validateCart(c) /\ WithinCaps
    \/ ~Ready /\ Deliver

SpecReads == Init /\ [][NextReads]_vars

(* ---------------- a session of priced lines ---------------- *)
PricedProductInputs == {"addon_earbuds", "phone_iphone15"}
PricedQuantityInputs == {10}

\* the service started with the default MAX_ITEMS_PER_CART
InitPricing == InitWith(DefaultMaxItems)

PricingCaps == Len(contexts') <= 1 /\ nextItem' <= MaxPricedItems + 1

NextPricing ==
    \/ Idle /\ Len(contextCache) < MaxCarts /\ initializeCart /\ PricingCaps
    \/ Idle /\ \E c \in CartInputs : getCart(c) /\ PricingCaps
    \/ Idle /\ \E c \in CartInputs, p \in PricedProductInputs, q \in PricedQuantityInputs :
                  addItem(c, p, q) /\ PricingCaps
    \/ Idle /\ \E c \in CartInputs, i \in ItemIdInputs, q \in AddQuantityInputs :
                  updateItem(c, i, q) /\ PricingCaps
    \/ Idle /\ \E c \in CartInputs, i \in ItemIdInputs : removeItem(c, i) /\ PricingCaps
    \/ ~Idle /\ Respond

SpecPricing == InitPricing /\ [][NextPricing]_vars

(* ---------------- the HTTP boundary ---------------- *)
\* errorHandler: the status of the response.  A ZodError gives 400, an APIError
\* its statusCode (NotFoundError: 404), any other Error 500; the controllers
\* answer 201 to initializeCart and 200 to the other requests.
HttpStatus(outcome) ==
    IF outcome.kind = "ok" THEN (IF outcome.op = "initializeCart" THEN 201 ELSE 200)
    ELSE IF outcome.kind = "ZodError" THEN 400
    ELSE IF outcome.kind = "NotFoundError" THEN 404
    ELSE 500

\* errorHandler: the detail of the problem document, env being NODE_ENV
HttpDetail(outcome, env) ==
    IF outcome.kind = "ZodError" THEN "One or more fields failed validation"
    ELSE IF outcome.kind = "NotFoundError" THEN outcome.message
    ELSE IF env = "development" THEN outcome.message
    ELSE "An unexpected error occurred while processing your request"

Environments == {"development", "production", "test"}

(* ---------------- requests through the routes ---------------- *)
\* A JSON body may carry any number as its quantity: the model counts body
\* quantities in halves, so 3 is the body quantity 1.5 and 20 the quantity 10.
RawQuantityInputs == {-2, 0, 2, 3, 20, 22}

\* the quantity schema as it would be without .max(10)
QuantitySchemaWithoutMax(halves) == halves % 2 = 0 /\ halves > 0 /\ halves >= 2

\* AddItemBodySchema / UpdateItemBodySchema, quantity:
\* z.number().int().positive().min(1).max(10)
QuantitySchema(halves) == halves % 2 = 0 /\ halves > 0 /\ halves >= 2 /\ halves <= 20

\* validateBody: schema.parse fails, the middleware answers 400 and the
\* controller is never called
ValidationError(request, halves) ==
    Rejects(Threw([request EXCEPT !.rawQuantity = halves], "ZodError", "Validation Error", FALSE))

\* POST /carts/:cartId/items
postItem(cartId, productId, halves) ==
    IF ~QuantitySchema(halves)
    THEN ValidationError([NoRequest EXCEPT !.op = "addItem", !.cartId = cartId,
                                           !.productId = productId], halves)
    ELSE addItem(cartId, productId, halves \div 2)

\* PATCH /carts/:cartId/items/:itemId
patchItem(cartId, itemId, halves) ==
    IF ~QuantitySchema(halves)
    THEN ValidationError([NoRequest EXCEPT !.op = "updateItem", !.cartId = cartId,
                                           !.itemId = itemId], halves)
    ELSE updateItem(cartId, itemId, halves \div 2)

HttpProductInputs == {"phone_iphone15", "addon_insurance"}

NextHttp ==
    \/ Idle /\ Len(contextCache) < MaxCarts /\ initializeCart /\ WithinCaps
    \/ Idle /\ \E c \in CartInputs : getCart(c) /\ WithinCaps
    \/ Idle /\ \E c \in CartInputs, p \in HttpProductInputs, h \in RawQuantityInputs :
                  postItem(c, p, h) /\ WithinCaps
    \/ Idle /\ \E c \in CartInputs, i \in ItemIdInputs, h \in RawQuantityInputs :
                  patchItem(c, i, h) /\ WithinCaps
    \/ Idle /\ \E c \in CartInputs, i \in ItemIdInputs : removeItem(c, i) /\ WithinCaps
    \/ Idle /\ \E c \in CartInputs : validateCart(c) /\ WithinCaps
    \/ Idle /\ \E k \in 1..Len(contexts) : expireContext(k)
    \/ ~Idle /\ Respond

SpecHttp == Init /\ [][NextHttp]_vars

(* ---------------- a session with requests that name absent things ---------------- *)
\* a cart id initializeCart never returns, a product id the catalog lacks, an
\* item id the Provider never issues
AbsentCartInputs == {0}
AbsentProductInputs == {"no_such_product"}
AbsentItemIdInputs == {0}

RejectCartInputs == CartInputs \cup AbsentCartInputs
RejectProductInputs == {"phone_iphone15", "addon_insurance"} \cup AbsentProductInputs
RejectItemIdInputs == ItemIdInputs \cup AbsentItemIdInputs

RejectCaps == Len(contexts') <= MaxContexts /\ nextItem' <= MaxRejectItemIds + 1

NextRejects ==
    \/ Idle /\ Len(contextCache) < MaxCarts /\ initializeCart /\ RejectCaps
    \/ Idle /\ \E c \in RejectCartInputs : getCart(c) /\ RejectCaps
    \/ Idle /\ \E c \in RejectCartInputs, p \in RejectProductInputs, q \in AddQuantityInputs :
                  addItem(c, p, q) /\ RejectCaps
    \/ Idle /\ \E c \in RejectCartInputs, i \in RejectItemIdInputs, q \in UpdateQuantityInputs :
                  updateItem(c, i, q) /\ RejectCaps
    \/ Idle /\ \E c \in RejectCartInputs, i \in RejectItemIdInputs :
                  removeItem(c, i) /\ RejectCaps
    \/ Idle /\ \E c \in RejectCartInputs : validateCart(c) /\ RejectCaps
    \/ Idle /\ \E c \in 1..Len(contextCache) : expireContext(contextCache[c])
    \/ Idle /\ now < MaxTime /\ Tick
    \/ ~Idle /\ Respond

SpecRejects == Init /\ [][NextRejects]_vars

(* ---------------- validateCartRules over arbitrary item sequences ---------------- *)
\* validateCartRules is a pure function of the items (and MAX_ITEMS_PER_CART):
\* here the Provider's array starts with an arbitrary item sequence, as a caller
\* of the function may pass one, and validateCart applies the function to it.
MaxRuleItems == 3
RuleProductInputs == {"phone_iphone15", "plan_unlimited", "addon_insurance"}
RuleQuantityInputs == {-1, 0, 1}

\* the item the Provider holds for a product and a quantity
RuleItem(itemId, productId, quantity) ==
    NewItem(itemId, [productId |-> productId, productName |-> products[productId].name,
                     productType |-> products[productId].type, quantity |-> quantity,
                     unitPrice |-> products[productId].price,
                     totalPrice |-> calculateItemTotal(products[productId].price, quantity)])

RuleItemSequences ==
    UNION {{[i \in 1..n |-> RuleItem(i, ps[i], qs[i])] :
               ps \in [1..n -> RuleProductInputs], qs \in [1..n -> RuleQuantityInputs]} :
           n \in 0..MaxRuleItems}

\* one cart whose valid context holds the items, shadowed by a copy
InitRules ==
    \E items \in RuleItemSequences :
        /\ now = 0
        /\ maxItemsPerCart = SmallMaxItems
        /\ contexts = <<[cartId |-> 1, expiresAt |-> ContextTTL, items |-> 1, held |-> TRUE]>>
        /\ arrays = <<items, items>>
        /\ contextCache = <<1>>
        /\ shadowState = <<2>>
        /\ nextItem = Len(items) + 1
        /\ seen = {}
        /\ recoveredAt = <<0>>
        /\ inflight = [p \in Callers |-> NoCall]
        /\ last = Threw(NoRequest, "none", "", FALSE)

NextRules ==
    \/ Idle /\ \E c \in CartInputs : validateCart(c)
    \/ ~Idle /\ Respond

SpecRules == InitRules /\ [][NextRules]_vars

(* ---------------- a session with recoveries of a two-line cart ---------------- *)
MaxRecoveryItemIds == 4
RecoveryProductInputs == {"phone_iphone15", "plan_unlimited"}

RecoveryCaps == Len(contexts') <= MaxContexts /\ nextItem' <= MaxRecoveryItemIds + 1

NextRecovery ==
    \/ Idle /\ Len(contextCache) < MaxCarts /\ initializeCart /\ RecoveryCaps
    \/ Idle /\ \E c \in CartInputs : getCart(c) /\ RecoveryCaps
    \/ Idle /\ \E c \in CartInputs, p \in RecoveryProductInputs, q \in AddQuantityInputs :
                  addItem(c, p, q) /\ RecoveryCaps
    \/ Idle /\ \E c \in CartInputs, i \in ItemIdInputs, q \in UpdateQuantityInputs :
                  updateItem(c, i, q) /\ RecoveryCaps
    \/ Idle /\ \E c \in CartInputs, i \in ItemIdInputs : removeItem(c, i) /\ RecoveryCaps
    \/ Idle /\ \E c \in CartInputs : validateCart(c) /\ RecoveryCaps
    \/ Idle /\ \E k \in 1..Len(contexts) : expireContext(k)
    \/ Idle /\ now < MaxTime /\ Tick
    \/ ~Idle /\ Respond

SpecRecovery == Init /\ [][NextRecovery]_vars

(* ---------------- the Provider called directly ---------------- *)
\* SalesforceCartClient used on its own: contexts are created, expire and are
\* swept, and its four item operations are called with any context id.
ContextExpired(request) == Rejects(Threw(request, "Error", "SF_CONTEXT_EXPIRED", FALSE))

sfCreateContext(cartId) ==
    LET created == createContext(contexts, arrays, cartId, now)
        request == [NoRequest EXCEPT !.op = "sfClient.createContext", !.cartId = cartId,
                                     !.contextId = created.contextId]
    IN  /\ contexts' = created.contexts
        /\ arrays' = created.arrays
        /\ last' = Returned(request, FALSE, NoView)
        /\ UNCHANGED <<now, maxItemsPerCart, contextCache, shadowState, nextItem, seen,
                       recoveredAt, inflight>>

sfGetCartItems(contextId) ==
    LET request == [NoRequest EXCEPT !.op = "sfClient.getCartItems", !.contextId = contextId] IN
    IF ~isContextValid(contexts, contextId, now) THEN ContextExpired(request)
    ELSE LET items == arrays[contexts[contextId].items] IN
         /\ last' = Returned(request, FALSE, [NoView EXCEPT !.items = items])
         /\ seen' = seen \cup ItemIds(items)
         /\ UNCHANGED <<now, maxItemsPerCart, contexts, arrays, contextCache, shadowState,
                        nextItem, recoveredAt, inflight>>

sfAddItem(contextId, productId, quantity) ==
    LET request == [NoRequest EXCEPT !.op = "sfClient.addItem", !.contextId = contextId,
                                     !.productId = productId, !.quantity = quantity] IN
    IF ~isContextValid(contexts, contextId, now) THEN ContextExpired(request)
    ELSE LET product == products[productId]
             newItem == NewItem(nextItem,
                                [productId |-> product.id, productName |-> product.name,
                                 productType |-> product.type, quantity |-> quantity,
                                 unitPrice |-> product.price,
                                 totalPrice |-> calculateItemTotal(product.price, quantity)])
         IN  /\ arrays' = [arrays EXCEPT ![contexts[contextId].items] = Append(@, newItem)]
             /\ nextItem' = nextItem + 1
             /\ seen' = seen \cup {newItem.id}
             /\ last' = Returned(request, FALSE, [NoView EXCEPT !.items = <<newItem>>])
             /\ UNCHANGED <<now, maxItemsPerCart, contexts, contextCache, shadowState,
                            recoveredAt, inflight>>

sfUpdateItem(contextId, itemId, quantity) ==
    LET request == [NoRequest EXCEPT !.op = "sfClient.updateItem", !.contextId = contextId,
                                     !.itemId = itemId, !.quantity = quantity] IN
    IF ~isContextValid(contexts, contextId, now) THEN ContextExpired(request)
    ELSE LET ref == contexts[contextId].items
             itemIndex == FindIndex(arrays[ref], itemId)
         IN  IF itemIndex = 0
             THEN Rejects(Threw(request, "Error", "ITEM_NOT_FOUND", FALSE))
             ELSE LET updatedItem == UpdatedItem(arrays[ref][itemIndex], quantity) IN
                  /\ arrays' = [arrays EXCEPT ![ref][itemIndex] = updatedItem]
                  /\ last' = Returned(request, FALSE, [NoView EXCEPT !.items = <<updatedItem>>])
                  /\ UNCHANGED <<now, maxItemsPerCart, contexts, contextCache, shadowState,
                                 nextItem, seen, recoveredAt, inflight>>

sfRemoveItem(contextId, itemId) ==
    LET request == [NoRequest EXCEPT !.op = "sfClient.removeItem", !.contextId = contextId,
                                     !.itemId = itemId] IN
    IF ~isContextValid(contexts, contextId, now) THEN ContextExpired(request)
    ELSE LET ref == contexts[contextId].items
             itemIndex == FindIndex(arrays[ref], itemId)
         IN  IF itemIndex = 0
             THEN Rejects(Threw(request, "Error", "ITEM_NOT_FOUND", FALSE))
             ELSE /\ arrays' = [arrays EXCEPT ![ref] = Splice(@, itemIndex)]
                  /\ last' = Returned(request, FALSE, NoView)
                  /\ UNCHANGED <<now, maxItemsPerCart, contexts, contextCache, shadowState,
                                 nextItem, seen, recoveredAt, inflight>>

MaxProviderItemIds == 2
ProviderOps == {"sfClient.getCartItems", "sfClient.addItem", "sfClient.updateItem",
                "sfClient.removeItem"}
\* the context ids a call names: those created, and one that never was
ContextIdInputs == 0..Len(contexts)
ProviderProductInputs == {"phone_iphone15", "addon_insurance"}
ProviderCaps == Len(contexts') <= MaxContexts /\ nextItem' <= MaxProviderItemIds + 1

NextProvider ==
    \/ Idle /\ Len(contexts) < MaxContexts /\ sfCreateContext(1)
    \/ Idle /\ \E k \in ContextIdInputs : sfGetCartItems(k)
    \/ Idle /\ \E k \in ContextIdInputs, p \in ProviderProductInputs, q \in AddQuantityInputs :
                  sfAddItem(k, p, q) /\ ProviderCaps
    \/ Idle /\ \E k \in ContextIdInputs, i \in RejectItemIdInputs, q \in UpdateQuantityInputs :
                  sfUpdateItem(k, i, q)
    \/ Idle /\ \E k \in ContextIdInputs, i \in RejectItemIdInputs : sfRemoveItem(k, i)
    \/ Idle /\ \E k \in 1..Len(contexts) : expireContext(k)
    \/ Idle /\ cleanupExpiredContexts
    \/ Idle /\ now < MaxTime /\ Tick
    \/ ~Idle /\ Respond

SpecProvider == Init /\ [][NextProvider]_vars

(* ---------------- addItem calls that overlap ---------------- *)
\* CartService.addItem is an async function: it runs from one await to the
\* next without interruption, and another call can run only while it is
\* suspended at an await.  Each action below is one such run of caller p.
\* The async methods of SalesforceCartClient hold no await: a call of one of
\* them runs to its end before the promise it returns is awaited.
MaxInflightContexts == 3
MaxInflightItemIds == 4

InflightProductInputs == {"phone_iphone15"}
InflightQuantityInputs == {1}

\* the call of caller p ends by throwing
Throws(p, kind, message) ==
    inflight' = [inflight EXCEPT ![p].pc = "done", ![p].kind = kind, ![p].message = message]

\* addItem up to its first await: the product lookup, then ensureValidContext
\* up to `await this.sfClient.createContext(cartId)` or to its return
beginAddItem(p, cartId, productId, quantity) ==
    LET call == [NoCall EXCEPT !.cartId = cartId, !.productId = productId,
                               !.quantity = quantity]
    IN
    /\ inflight[p].pc = "start"
    /\ IF productId \notin DOMAIN products
       THEN /\ inflight' = [inflight EXCEPT ![p] =
                   [call EXCEPT !.pc = "done", !.kind = "NotFoundError", !.message = "Product"]]
            /\ UNCHANGED <<contexts, arrays>>
       ELSE IF ~KnownCart(cartId)
       THEN /\ inflight' = [inflight EXCEPT ![p] =
                   [call EXCEPT !.pc = "done", !.kind = "NotFoundError", !.message = "Cart"]]
            /\ UNCHANGED <<contexts, arrays>>
       ELSE IF IsExpiredForService(contexts[contextCache[cartId]].expiresAt, now)
       THEN LET created == createContext(contexts, arrays, cartId, now) IN
            /\ contexts' = created.contexts
            /\ arrays' = created.arrays
            /\ inflight' = [inflight EXCEPT ![p] =
                   [call EXCEPT !.pc = "awaitCreate", !.contextId = created.contextId,
                                !.shadowRef = shadowState[cartId], !.recovered = TRUE]]
       ELSE /\ inflight' = [inflight EXCEPT ![p] =
                   [call EXCEPT !.pc = "awaitEnsure", !.contextId = contextCache[cartId]]]
            /\ UNCHANGED <<contexts, arrays>>
    /\ UNCHANGED <<now, maxItemsPerCart, contextCache, shadowState, nextItem, seen,
                   recoveredAt, last>>

\* ensureValidContext from an await of its recovery to the next: one more
\* shadow item replayed into the new context (for..of reads the array as it
\* is now), or the loop left, the cache set and the context id returned
replayNext(p) ==
    LET call == inflight[p]
        shadowItems == arrays[call.shadowRef]
    IN
    /\ call.pc \in {"awaitCreate", "awaitReplay"}
    /\ IF call.replayed < Len(shadowItems)
       THEN IF ~isContextValid(contexts, call.contextId, now)
            THEN /\ Throws(p, "Error", "SF_CONTEXT_EXPIRED")
                 /\ UNCHANGED <<arrays, nextItem, contextCache, recoveredAt>>
            ELSE /\ arrays' = [arrays EXCEPT ![contexts[call.contextId].items] =
                        Append(@, NewItem(nextItem, ReplayRequest(shadowItems[call.replayed + 1])))]
                 /\ nextItem' = nextItem + 1
                 /\ inflight' = [inflight EXCEPT ![p].pc = "awaitReplay",
                                                 ![p].replayed = call.replayed + 1]
                 /\ UNCHANGED <<contextCache, recoveredAt>>
       ELSE /\ contextCache' = [contextCache EXCEPT ![call.cartId] = call.contextId]
            /\ recoveredAt' = [recoveredAt EXCEPT ![call.cartId] = nextItem - call.replayed]
            /\ inflight' = [inflight EXCEPT ![p].pc = "awaitEnsure"]
            /\ UNCHANGED <<arrays, nextItem>>
    /\ UNCHANGED <<now, maxItemsPerCart, contexts, shadowState, seen, last>>

\* addItem from `await this.ensureValidContext(cartId)` to
\* `await this.sfClient.getCartItems(contextId)`
readItems(p) ==
    LET call == inflight[p] IN
    /\ call.pc = "awaitEnsure"
    /\ IF ~isContextValid(contexts, call.contextId, now)
       THEN Throws(p, "Error", "SF_CONTEXT_EXPIRED")
       ELSE inflight' = [inflight EXCEPT ![p].pc = "awaitItems",
                                         ![p].itemsRef = contexts[call.contextId].items]
    /\ UNCHANGED <<now, maxItemsPerCart, contexts, arrays, contextCache, shadowState,
                   nextItem, seen, recoveredAt, last>>

\* the item addItem asks the Provider to store
RequestedItem(call, itemId) ==
    LET product == products[call.productId] IN
    NewItem(itemId, [productId |-> product.id, productName |-> product.name,
                     productType |-> product.type, quantity |-> call.quantity,
                     unitPrice |-> product.price,
                     totalPrice |-> calculateItemTotal(product.price, call.quantity)])

\* the run after getCartItems as it would be with the call suspended between
\* the can-add check and the Provider write
checkThenSuspend(p) ==
    LET call == inflight[p]
        canAdd == canAddItemType(arrays[call.itemsRef], products[call.productId].type,
                                 maxItemsPerCart)
    IN
    /\ call.pc = "awaitItems"
    /\ IF ~canAdd.allowed
       THEN Throws(p, "Error", canAdd.reason)
       ELSE inflight' = [inflight EXCEPT ![p].pc = "awaitAdd",
                                         ![p].newItem = RequestedItem(call, nextItem)]
    /\ UNCHANGED <<now, maxItemsPerCart, contexts, arrays, contextCache, shadowState,
                   nextItem, seen, recoveredAt, last>>

\* addItem from `await this.sfClient.getCartItems(contextId)` to
\* `await this.sfClient.addItem(contextId, ...)`: canAddItemType on the array
\* getCartItems returned, as it is now, and the whole of the Provider's addItem
checkThenAdd(p) ==
    LET call == inflight[p]
        canAdd == canAddItemType(arrays[call.itemsRef], products[call.productId].type,
                                 maxItemsPerCart)
    IN
    /\ call.pc = "awaitItems"
    /\ IF ~canAdd.allowed
       THEN /\ Throws(p, "Error", canAdd.reason)
            /\ UNCHANGED <<arrays, nextItem>>
       ELSE IF ~isContextValid(contexts, call.contextId, now)
       THEN /\ Throws(p, "Error", "SF_CONTEXT_EXPIRED")
            /\ UNCHANGED <<arrays, nextItem>>
       ELSE /\ arrays' = [arrays EXCEPT ![contexts[call.contextId].items] =
                             Append(@, RequestedItem(call, nextItem))]
            /\ nextItem' = nextItem + 1
            /\ inflight' = [inflight EXCEPT ![p].pc = "awaitAdd",
                                            ![p].newItem = RequestedItem(call, nextItem)]
    /\ UNCHANGED <<now, maxItemsPerCart, contexts, contextCache, shadowState, seen,
                   recoveredAt, last>>

\* addItem from `await this.sfClient.addItem(contextId, ...)` to its return:
\* the push on the shadow and the Cart built from it
syncShadow(p) ==
    LET call == inflight[p]
        synced == [arrays EXCEPT ![shadowState[call.cartId]] = Append(@, call.newItem)]
        view == buildCart(call.cartId, synced[shadowState[call.cartId]])
    IN
    /\ call.pc = "awaitAdd"
    /\ arrays' = synced
    /\ seen' = seen \cup ItemIds(view.items)
    /\ inflight' = [inflight EXCEPT ![p].pc = "done", ![p].kind = "ok", ![p].view = view]
    /\ UNCHANGED <<now, maxItemsPerCart, contexts, contextCache, shadowState, nextItem,
                   recoveredAt, last>>

\* the caller has its outcome: the call is over
settle(p) ==
    /\ inflight[p].pc = "done"
    /\ inflight' = [inflight EXCEPT ![p] = NoCall]
    /\ UNCHANGED <<now, maxItemsPerCart, contexts, arrays, contextCache, shadowState,
                   nextItem, seen, recoveredAt, last>>

InflightCaps == Len(contexts') <= MaxInflightContexts /\ nextItem' <= MaxInflightItemIds + 1

NextInflight ==
    \/ Idle /\ Len(contextCache) < MaxCarts /\ initializeCart /\ InflightCaps
    \/ ~Idle /\ Respond
    \/ Idle /\ \E k \in 1..Len(contexts) : expireContext(k)
    \/ Idle /\ now < MaxTime /\ Tick
    \/ \E p \in Callers, c \in CartInputs, i \in InflightProductInputs,
          q \in InflightQuantityInputs : beginAddItem(p, c, i, q) /\ InflightCaps
    \/ \E p \in Callers : replayNext(p) /\ InflightCaps
    \/ \E p \in Callers : readItems(p)
    \/ \E p \in Callers : checkThenAdd(p) /\ InflightCaps
    \/ \E p \in Callers : syncShadow(p)
    \/ \E p \in Callers : settle(p)

SpecInflight == Init /\ [][NextInflight]_vars

(* ---------------- what the claims speak about ---------------- *)
\* the cart's shadow items
ShadowItems(c) == arrays[shadowState[c]]

\* the items the Provider holds for the cart's cached context
LiveItems(c) ==
    IF contexts[contextCache[c]].held THEN arrays[contexts[contextCache[c]].items]
    ELSE << >>

\* an item without its identifier
Content(item) ==
    [productId |-> item.productId, quantity |-> item.quantity,
     unitPrice |-> item.unitPrice, totalPrice |-> item.totalPrice]

Contents(items) == [i \in 1..Len(items) |-> Content(items[i])]

Carts == 1..Len(contextCache)

(* ---------------- C1 ---------------- *)
\* C1: in every state, the shadow items and the live items of every cart hold
\* at most one PHONE item and at most one PLAN item.
C1_AtMostOnePhoneAndPlan ==
    \A c \in Carts :
        /\ CountType(ShadowItems(c), "PHONE") <= 1
        /\ CountType(ShadowItems(c), "PLAN") <= 1
        /\ CountType(LiveItems(c), "PHONE") <= 1
        /\ CountType(LiveItems(c), "PLAN") <= 1

(* ---------------- C2 ---------------- *)
\* the items the cart's cached context object refers to
CachedContextItems(c) == arrays[contexts[contextCache[c]].items]

\* C2: a getCart on a cart whose context has expired for the Provider (by the
\* TTL or by expireContext) returns, and returns the items the cart held before
\* the expiry, by (product id, quantity, unit price, total price) and in the
\* same order.
C2_GetCartAfterExpiryReturnsSameItems ==
    [][\A c \in Carts :
          (Idle /\ ~isContextValid(contexts, contextCache[c], now)
                /\ last'.op = "getCart" /\ last'.cartId = c)
          => /\ last'.kind = "ok"
             /\ Contents(last'.view.items) = Contents(ShadowItems(c))]_vars

\* Recovery alone: every getCart that returns after a recovery returns the
\* items the shadow held, which are those of the expired context while the
\* Provider still holds it.
RecoveredGetCartReturnsSameItems ==
    [][\A c \in Carts :
          (Idle /\ last'.op = "getCart" /\ last'.cartId = c /\ last'.kind = "ok"
                /\ last'.recovered)
          => /\ Contents(last'.view.items) = Contents(ShadowItems(c))
             /\ contexts[contextCache[c]].held
                    => Contents(last'.view.items) = Contents(CachedContextItems(c))]_vars

(* ---------------- C3 ---------------- *)
\* C3: no Orchestrator operation ever fails with the Provider's ContextExpired
\* error, whatever the current time is relative to the context's expiry.
C3_ContextExpiredNeverLeaks == last.message # "SF_CONTEXT_EXPIRED"

(* ---------------- C4 ---------------- *)
\* C4: addItem of a PHONE on a cart that holds a PHONE fails with 'Only one
\* phone is allowed per cart', addItem of a PLAN on a cart that holds a PLAN
\* fails with 'Only one plan is allowed per cart', and the failed call leaves
\* the shadow sequence and the live contents as they were.
C4_SecondPhoneOrPlanIsRejected ==
    [][\A c \in Carts : \A t \in {"PHONE", "PLAN"} :
          (Idle /\ last'.op = "addItem" /\ last'.cartId = c
                /\ products[last'.productId].type = t
                /\ CountType(ShadowItems(c), t) >= 1)
          => /\ last'.kind = "Error"
             /\ last'.message = (IF t = "PHONE" THEN OnePhoneMessage ELSE OnePlanMessage)
             /\ ShadowItems(c)' = ShadowItems(c)
             /\ Contents(LiveItems(c)') = Contents(ShadowItems(c))]_vars

(* ---------------- C5 ---------------- *)
\* C5: after every successful addItem, updateItem or removeItem (item ids taken
\* from views returned before), the cart's shadow sequence equals the live item
\* sequence of its cached context, item for item, identifiers included.
C5_ShadowEqualsLiveAfterMutation ==
    [][\A c \in Carts :
          (Idle /\ last'.op \in {"addItem", "updateItem", "removeItem"}
                /\ last'.cartId = c /\ last'.kind = "ok")
          => ShadowItems(c)' = LiveItems(c)']_vars

(* ---------------- C6 ---------------- *)
\* C6: in every state, no cart holds more items than the configured maximum,
\* in its shadow sequence or in its live item sequence.
C6_ItemCountWithinMax ==
    \A c \in Carts :
        /\ Len(ShadowItems(c)) <= maxItemsPerCart
        /\ Len(LiveItems(c)) <= maxItemsPerCart

(* ---------------- C7 ---------------- *)
\* C7: on a cart whose live items number exactly the configured maximum,
\* addItem of any catalog product fails with 'Cart has reached maximum of <max>
\* items', also for a PHONE or PLAN the cart already holds one of.
C7_FullCartRejectsEveryAdd ==
    [][\A c \in Carts :
          (Idle /\ Len(LiveItems(c)) = maxItemsPerCart
                /\ last'.op = "addItem" /\ last'.cartId = c)
          => /\ last'.kind = "Error"
             /\ last'.message = MaxReachedMessage(maxItemsPerCart)]_vars

(* ---------------- C8 ---------------- *)
HasPlanNoPhone(items) == CountType(items, "PLAN") > 0 /\ CountType(items, "PHONE") = 0

\* C8 (as stated): in every state, a cart that holds a PLAN holds a PHONE.
C8_PlanImpliesPhone ==
    \A c \in Carts : ~HasPlanNoPhone(ShadowItems(c)) /\ ~HasPlanNoPhone(LiveItems(c))

\* C8 (amended): a PLAN without a PHONE is reported, not prevented.  addItem of
\* a PLAN on a cart without a PHONE is rejected only for the item count, for a
\* PLAN already held or for the context, never for the missing PHONE; and every
\* result validateCart returns is invalid with 'Cart contains plans but no
\* phone. Plans require a phone.' among its errors exactly when the cart's
\* live items hold a PLAN and no PHONE.
C8_PlanWithoutPhoneIsReportedNotPrevented ==
    [][\A c \in Carts :
          /\ (Idle /\ last'.op = "addItem" /\ last'.cartId = c
                   /\ products[last'.productId].type = "PLAN"
                   /\ CountType(ShadowItems(c), "PHONE") = 0
                   /\ last'.kind # "ok")
             => last'.message \in {MaxReachedMessage(maxItemsPerCart), OnePlanMessage,
                                   "SF_CONTEXT_EXPIRED"}
          /\ (Idle /\ last'.op = "validateCart" /\ last'.cartId = c /\ last'.kind = "ok")
             => LET errors == last'.validation.errors
                    reported == \E i \in 1..Len(errors) : errors[i] = PlanNeedsPhoneMessage
                IN  /\ reported <=> HasPlanNoPhone(LiveItems(c)')
                    /\ reported => ~last'.validation.valid]_vars

\* validateCart has just reported a PLAN without a PHONE
C8_Witness ==
    /\ last.op = "validateCart"
    /\ last.kind = "ok"
    /\ ~last.validation.valid
    /\ last.validation.errors = <<PlanNeedsPhoneMessage>>
    /\ HasPlanNoPhone(LiveItems(last.cartId))

(* ---------------- C9 ---------------- *)
\* C9: on a cart that holds no PHONE and no PLAN (and is not full), addItem of
\* a PLAN succeeds, and the validateCart that follows it returns valid = false
\* with the one error 'Cart contains plans but no phone. Plans require a
\* phone.', whatever reads came before the add.
C9_PlanAloneThenValidateReportsOneError ==
    [][\A c \in Carts :
          /\ (Ready /\ CountType(LiveItems(c), "PHONE") = 0
                    /\ CountType(LiveItems(c), "PLAN") = 0
                    /\ Len(LiveItems(c)) < maxItemsPerCart
                    /\ last'.op = "addItem" /\ last'.cartId = c
                    /\ products[last'.productId].type = "PLAN")
             => last'.kind = "ok"
          /\ (last.delivered /\ last.op = "addItem" /\ last.cartId = c
                    /\ last.kind = "ok" /\ products[last.productId].type = "PLAN"
                    /\ CountType(LiveItems(c), "PHONE") = 0
                    /\ last'.op = "validateCart" /\ last'.cartId = c /\ ~last'.delivered)
             => /\ last'.kind = "ok"
                /\ last'.validation = [valid |-> FALSE,
                                       errors |-> <<PlanNeedsPhoneMessage>>]]_vars

(* ---------------- C10 ---------------- *)
\* a value of pips/10000 rounded to cents, half away from zero (pips >= 0)
RoundHalfAway(pips) == (pips + 50) \div 100

\* the views that carry totals
ViewOps == {"initializeCart", "getCart", "addItem", "updateItem", "removeItem"}

\* the worked example: one iPhone 15 Pro (1399.99) and one Device Insurance (12.00)
ExampleItems ==
    << NewItem(1, [productId |-> "phone_iphone15", productName |-> "iPhone 15 Pro",
                   productType |-> "PHONE", quantity |-> 1, unitPrice |-> 139999,
                   totalPrice |-> 139999]),
       NewItem(2, [productId |-> "addon_insurance", productName |-> "Device Insurance",
                   productType |-> "ADDON", quantity |-> 1, unitPrice |-> 1200,
                   totalPrice |-> 1200]) >>

\* C10: every Cart view has subtotal = round2(sum of the items' total prices),
\* tax = round2(subtotal * 0.13) and total = round2(subtotal + tax), rounding
\* half away from zero; 1399.99 + 12.00 gives 1411.99, 183.56 and 1595.55.
C10_TotalsRoundHalfAwayFromZero ==
    /\ (last.op \in ViewOps /\ last.kind = "ok")
       => LET view == last.view IN
          /\ view.subtotal = RoundHalfAway(SumTotals(view.items) * 100)
          /\ view.tax = RoundHalfAway(view.subtotal * TaxRatePct)
          /\ view.total = RoundHalfAway((view.subtotal + view.tax) * 100)
    /\ LET example == buildCart(1, ExampleItems) IN
       /\ example.subtotal = 141199
       /\ example.tax = 18356
       /\ example.total = 159555

(* ---------------- C11 ---------------- *)
\* the Orchestrator operations that take a cart id
CartOps == {"getCart", "addItem", "updateItem", "removeItem", "validateCart"}

\* what the Orchestrator and the Provider hold
Stores == <<contexts, arrays, contextCache, shadowState, nextItem>>

\* C11: getCart, addItem of a catalog product, updateItem, removeItem and
\* validateCart on a cart id that initializeCart never returned fail with
\* NotFound for the cart, and the call changes no context, no item store, no
\* cache entry and no shadow entry.
C11_AbsentCartIsNotFound ==
    [][(Idle /\ last'.op \in CartOps /\ last'.cartId \notin Carts
             /\ (last'.op = "addItem" => last'.productId \in DOMAIN products))
       => /\ last'.kind = "NotFoundError"
          /\ last'.message = "Cart"
          /\ Stores' = Stores]_vars

\* an updateItem on an absent cart has just failed, another cart existing
C11_Witness ==
    /\ last.op = "updateItem"
    /\ last.cartId \notin Carts
    /\ last.kind = "NotFoundError"
    /\ Carts # {}
    /\ \E c \in Carts : Len(ShadowItems(c)) > 0

(* ---------------- C12 ---------------- *)
\* C12: addItem with a product id the catalog lacks fails with NotFound for
\* the product and changes no context, no item store, no cache entry and no
\* shadow entry: no recovery runs even if the cart's context has expired, and
\* the cart id is not looked at.
C12_AbsentProductIsNotFoundFirst ==
    [][(Idle /\ last'.op = "addItem" /\ last'.productId \notin DOMAIN products)
       => /\ last'.kind = "NotFoundError"
          /\ last'.message = "Product"
          /\ ~last'.recovered
          /\ Stores' = Stores]_vars

\* an addItem of an absent product has just failed on a cart whose context
\* has expired and holds an item
C12_Witness ==
    /\ last.op = "addItem"
    /\ last.productId \notin DOMAIN products
    /\ last.kind = "NotFoundError"
    /\ last.cartId \in Carts
    /\ IsExpiredForService(contexts[contextCache[last.cartId]].expiresAt, now)
    /\ Len(ShadowItems(last.cartId)) > 0

(* ---------------- C13 ---------------- *)
\* C13: updateItem or removeItem on an existing cart, with an item id the
\* Provider does not hold in the cart's current context, fails with the
\* NotFound kind, which the boundary answers with 404, and leaves the cart's
\* shadow items as they were.
C13_AbsentItemIsNotFound ==
    [][\A c \in Carts :
          (Idle /\ last'.op \in {"updateItem", "removeItem"} /\ last'.cartId = c
                /\ isContextValid(contexts, contextCache[c], now)
                /\ last'.itemId \notin ItemIds(LiveItems(c)))
          => /\ last'.kind = "NotFoundError"
             /\ HttpStatus(last') = 404
             /\ ShadowItems(c)' = ShadowItems(c)]_vars

\* The item ids issued before cart c was last recovered (none if it never was).
IssuedBeforeRecovery(c) == IF recoveredAt[c] = 0 THEN {} ELSE 1..(recoveredAt[c] - 1)

\* C14: item ids are not stable across recovery.  Once a cart has been
\* recovered, updateItem and removeItem reject every item id issued before the
\* recovery with ITEM_NOT_FOUND, and the items getCart returns carry none of
\* those ids.
C14_IdsNotStableAcrossRecovery ==
    [][\A c \in Carts :
          (Idle /\ last'.cartId = c /\ recoveredAt'[c] > 0)
          => /\ (last'.op \in {"updateItem", "removeItem"}
                    /\ last'.itemId \in IssuedBeforeRecovery(c)')
                 => (last'.kind = "Error" /\ last'.message = "ITEM_NOT_FOUND")
             /\ (last'.op = "getCart" /\ last'.kind = "ok")
                 => ItemIds(last'.view.items) \cap IssuedBeforeRecovery(c)' = {}]_vars

\* the rules of validateCart in the order of their report
RuleOrder(max) ==
    <<MaxExceededMessage(max), PlanNeedsPhoneMessage, OnePhoneMessage, OnePlanMessage,
      InvalidQuantitiesMessage>>

\* the rules an item sequence violates
ViolatedRules(items, max) ==
    {m \in {MaxExceededMessage(max)} : Len(items) > max}
    \cup {m \in {PlanNeedsPhoneMessage} :
             /\ \E i \in 1..Len(items) : items[i].productType = "PLAN"
             /\ \A i \in 1..Len(items) : items[i].productType # "PHONE"}
    \cup {m \in {OnePhoneMessage} :
             Cardinality({i \in 1..Len(items) : items[i].productType = "PHONE"}) > 1}
    \cup {m \in {OnePlanMessage} :
             Cardinality({i \in 1..Len(items) : items[i].productType = "PLAN"}) > 1}
    \cup {m \in {InvalidQuantitiesMessage} :
             \E i \in 1..Len(items) : items[i].quantity \notin Nat \ {0}}

IsViolated(items, max, message) == message \in ViolatedRules(items, max)

\* C15: validateCart lists the violations in a fixed order.  For every item
\* sequence the errors are the subsequence of [max exceeded, plan without
\* phone, more than one phone, more than one plan, invalid quantities] made of
\* exactly the rules the items violate, and valid is true exactly when that
\* list is empty.
C15_ErrorsInRuleOrder ==
    [][\A c \in Carts :
          (Idle /\ last'.op = "validateCart" /\ last'.cartId = c /\ last'.kind = "ok")
          => LET items == LiveItems(c)'
                 expected == SelectSeq(RuleOrder(maxItemsPerCart),
                                       LAMBDA m : IsViolated(items, maxItemsPerCart, m))
             IN  /\ last'.validation.errors = expected
                 /\ last'.validation.valid = (expected = << >>)]_vars

\* a cart over the maximum with two phones and an invalid quantity: three
\* rules reported at once
C15_Witness ==
    /\ last.op = "validateCart" /\ last.kind = "ok"
    /\ last.validation.errors = <<MaxExceededMessage(maxItemsPerCart), OnePhoneMessage,
                                   InvalidQuantitiesMessage>>
    /\ ~last.validation.valid

\* the quantities of an item sequence
Quantities(items) == [i \in 1..Len(items) |-> items[i].quantity]

\* the body quantity of the request behind an outcome, in halves
RawQuantity(outcome) ==
    IF outcome.kind = "ZodError" THEN outcome.rawQuantity ELSE 2 * outcome.quantity

\* C16: every item of every cart reachable through the HTTP API has an integer
\* quantity between 1 and 10.  An add or update request whose quantity is
\* zero, negative, non-integer or above 10 is answered 400 with no store
\* touched, and a recovery replays the quantities unchanged.
C16_QuantitiesWithinOneToTen ==
    [][/\ \A c \in 1..Len(contextCache') :
             /\ \A i \in 1..Len(ShadowItems(c)') : ShadowItems(c)'[i].quantity \in 1..10
             /\ \A i \in 1..Len(LiveItems(c)') : LiveItems(c)'[i].quantity \in 1..10
       /\ (Idle /\ last'.op \in {"addItem", "updateItem"}
                 /\ (\/ RawQuantity(last') <= 0
                     \/ RawQuantity(last') % 2 # 0
                     \/ RawQuantity(last') > 20))
          => (last'.kind = "ZodError" /\ HttpStatus(last') = 400 /\ Stores' = Stores)
       /\ \A c \in Carts :
             (Idle /\ last'.op \in {"getCart", "validateCart"} /\ last'.cartId = c
                   /\ last'.recovered)
             => Quantities(LiveItems(c)') = Quantities(ShadowItems(c))]_vars

\* a request for a quantity of 11 is refused on a cart that was recovered
\* while holding a quantity of 10
C16_Witness ==
    /\ last.op = "updateItem" /\ last.kind = "ZodError" /\ last.rawQuantity = 22
    /\ last.cartId \in Carts /\ recoveredAt[last.cartId] > 0
    /\ \E i \in 1..Len(LiveItems(last.cartId)) : LiveItems(last.cartId)[i].quantity = 10

\* the messages of the business rules addItem enforces
BusinessRuleMessages == {OnePhoneMessage, OnePlanMessage, MaxReachedMessage(maxItemsPerCart)}

\* C17: when addItem is rejected by a business rule (second PHONE, second
\* PLAN, or maximum reached), the HTTP API answers 400 with a detail that
\* carries the rule's message, in every environment.
C17_BusinessRuleRejectionIs400 ==
    [][(Idle /\ last'.op = "addItem" /\ last'.kind # "ok"
             /\ last'.message \in BusinessRuleMessages)
       => /\ HttpStatus(last') = 400
          /\ \A env \in Environments : HttpDetail(last', env) = last'.message]_vars

\* C18: initializeCart always succeeds and returns a Cart with a new id, no
\* items and subtotal, tax and total 0.  The cart then has a cached context
\* the Provider holds with no items and an empty shadow, and a getCart made
\* right after it returns the same id with no items.
C18_InitializeCartReturnsEmptyCart ==
    [][/\ (Ready /\ last'.op = "initializeCart")
          => LET c == last'.cartId IN
             /\ last'.kind = "ok"
             /\ c \notin Carts /\ c \in 1..Len(contextCache')
             /\ last'.view = [id |-> c, items |-> << >>, subtotal |-> 0, tax |-> 0, total |-> 0]
             /\ isContextValid(contexts', contextCache'[c], now')
             /\ contexts'[contextCache'[c]].cartId = c
             /\ arrays'[contexts'[contextCache'[c]].items] = << >>
             /\ arrays'[shadowState'[c]] = << >>
       /\ (last.op = "initializeCart" /\ last.delivered /\ last'.op = "getCart"
                /\ last'.cartId = last.cartId)
          => (last'.kind = "ok" /\ last'.view.id = last.cartId /\ last'.view.items = << >>)]_vars

\* getCart has answered with the empty cart before any item was ever added
C18_Witness ==
    /\ last.op = "getCart" /\ last.kind = "ok" /\ last.cartId \in Carts
    /\ last.view.id = last.cartId /\ last.view.items = << >>
    /\ nextItem = 1

\* C19: a successful addItem adds exactly one item.  The live items of the
\* cart's context and the cart's shadow each become what they were (after the
\* replay, if the add recovered the cart, in content) followed by one new
\* item, which is also the last item of the returned view; this whatever
\* requests, getCart included, came before.
C19_AddItemAddsExactlyOne ==
    [][\A c \in Carts :
          (Idle /\ last'.op = "addItem" /\ last'.cartId = c /\ last'.kind = "ok")
          => LET live == LiveItems(c)'
                 shadow == ShadowItems(c)'
                 view == last'.view.items
             IN  /\ Len(shadow) = Len(ShadowItems(c)) + 1
                 /\ SubSeq(shadow, 1, Len(shadow) - 1) = ShadowItems(c)
                 /\ Len(live) = Len(ShadowItems(c)) + 1
                 /\ ~last'.recovered => SubSeq(live, 1, Len(live) - 1) = LiveItems(c)
                 /\ Contents(SubSeq(live, 1, Len(live) - 1)) = Contents(ShadowItems(c))
                 /\ live[Len(live)].productId = last'.productId
                 /\ shadow[Len(shadow)] = live[Len(live)]
                 /\ view # << >> /\ view[Len(view)] = live[Len(live)]]_vars

\* no two items of the sequence carry the same id
UniqueIds(items) == \A i, j \in 1..Len(items) : items[i].id = items[j].id => i = j

\* C20: item identifiers are unique within a cart: no two elements of its
\* shadow, of its live items, or of a returned Cart view carry the same id.
C20_ItemIdsUnique ==
    /\ \A c \in Carts : UniqueIds(ShadowItems(c)) /\ UniqueIds(LiveItems(c))
    /\ UniqueIds(last.view.items)

\* C21: every item id in the Cart view a successful getCart, addItem,
\* updateItem or removeItem returns is held by the Provider in the cart's
\* cached context at that moment (so a following updateItem or removeItem
\* accepts it); after a recovery the ids of the view are those of the replay.
C21_ViewIdsAreLive ==
    [][\A c \in Carts :
          (Idle /\ last'.op \in ViewOps /\ last'.cartId = c /\ last'.kind = "ok")
          => /\ ItemIds(last'.view.items) \subseteq ItemIds(LiveItems(c)')
             /\ last'.recovered
                => ItemIds(last'.view.items) \cap IssuedBeforeRecovery(c)' = {}]_vars

\* C22: an addItem rejected by a business rule mutates nothing: the context
\* cache, the shadow store and the Provider's contexts and item stores are the
\* same before and after, also when the cached context had expired.
C22_RejectedAddChangesNothing ==
    [][(Idle /\ last'.op = "addItem" /\ last'.kind # "ok"
             /\ last'.message \in BusinessRuleMessages)
       => <<contexts, arrays, contextCache, shadowState>>'
            = <<contexts, arrays, contextCache, shadowState>>]_vars

\* the fields a replay carries over from a shadow item
ReplayedFields(items) == [i \in 1..Len(items) |-> ReplayRequest(items[i])]

\* C23: when an operation finds the cart's cached context expired, recovery
\* creates exactly one new Provider context, adds to it one item per shadow
\* item, in the shadow's order and with the same product id, name, category,
\* quantity, unit price and total price, and makes it the cart's cached
\* context.  The recovery leaves the shadow and the old context's stored items
\* as they were, and the new context holds as many items as the shadow.
C23_RecoveryReplaysShadowInOrder ==
    [][\A c \in Carts :
          (Idle /\ last'.cartId = c /\ last'.recovered)
          => LET old == contextCache[c]
                 added == last'.op = "addItem" /\ last'.kind = "ok"
                 live == LiveItems(c)'
                 replayed == IF added THEN SubSeq(live, 1, Len(live) - 1) ELSE live
             IN  /\ IsExpiredForService(contexts[old].expiresAt, now)
                 /\ Len(contexts') = Len(contexts) + 1
                 /\ \A k \in 1..Len(contexts) : contexts'[k] = contexts[k]
                 /\ contextCache'[c] = Len(contexts')
                 /\ contexts'[contextCache'[c]].cartId = c
                 /\ Len(replayed) = Len(ShadowItems(c))
                 /\ ReplayedFields(replayed) = ReplayedFields(ShadowItems(c))
                 /\ (last'.op = "validateCart" \/ last'.kind # "ok")
                    => /\ shadowState' = shadowState
                       /\ ShadowItems(c)' = ShadowItems(c)
                       /\ arrays'[contexts[old].items] = arrays[contexts[old].items]]_vars

\* a cart of a phone and a plan has been recovered by validateCart
C23_Witness ==
    /\ last.op = "validateCart" /\ last.recovered /\ last.cartId \in Carts
    /\ Len(LiveItems(last.cartId)) = 2
    /\ LiveItems(last.cartId)[1].productType # LiveItems(last.cartId)[2].productType
    /\ ItemIds(LiveItems(last.cartId)) \cap ItemIds(ShadowItems(last.cartId)) = {}

\* C24: while the cart's cached context has not expired, no operation of the
\* Orchestrator replaces it: getCart, addItem, updateItem, removeItem and
\* validateCart leave the cached context id as it is and create no Provider
\* context.  A context appears only through initializeCart or through the
\* recovery of an expired context.
C24_UnexpiredContextIsKept ==
    [][/\ \A c \in Carts :
             (Idle /\ last'.op \in CartOps /\ last'.cartId = c
                   /\ ~IsExpiredForService(contexts[contextCache[c]].expiresAt, now))
             => /\ contextCache'[c] = contextCache[c]
                /\ Len(contexts') = Len(contexts)
                /\ ~last'.recovered
       /\ Len(contexts') # Len(contexts)
          => \/ last'.op = "initializeCart"
             \/ /\ last'.cartId \in Carts /\ last'.recovered
                /\ IsExpiredForService(contexts[contextCache[last'.cartId]].expiresAt, now)]_vars

\* a cart that was recovered once has then taken an item without a recovery
C24_Witness ==
    /\ last.op = "addItem" /\ last.kind = "ok" /\ ~last.recovered
    /\ last.cartId \in Carts /\ recoveredAt[last.cartId] > 0
    /\ contextCache[last.cartId] = Len(contexts)

\* C25: after every successful getCart the cart's shadow is exactly the item
\* sequence the Provider holds for the cart's cached context (same items, same
\* ids, same order) and the returned view contains exactly those items;
\* whatever the shadow held before is discarded.
C25_GetCartOverwritesShadow ==
    [][\A c \in Carts :
          (Idle /\ last'.op = "getCart" /\ last'.cartId = c /\ last'.kind = "ok")
          => /\ ShadowItems(c)' = LiveItems(c)'
             /\ last'.view.items = LiveItems(c)']_vars

\* a getCart has recovered a cart with items: the shadow now carries the ids
\* of the replay, none of the ids it held before
C25_Witness ==
    /\ last.op = "getCart" /\ last.kind = "ok" /\ last.recovered /\ last.cartId \in Carts
    /\ Len(ShadowItems(last.cartId)) > 0
    /\ ItemIds(ShadowItems(last.cartId)) \cap IssuedBeforeRecovery(last.cartId) = {}

\* C26: validateCart never changes cart contents.  After the call the shadow
\* is unchanged and the live items of the cart's cached context have the
\* contents and order (product id, quantity, unit price, total price) the cart
\* had before the call, for valid and invalid carts, expired context or not.
C26_ValidateCartChangesNoContents ==
    [][\A c \in Carts :
          (Idle /\ last'.op = "validateCart" /\ last'.cartId = c)
          => /\ shadowState' = shadowState
             /\ ShadowItems(c)' = ShadowItems(c)
             /\ Contents(LiveItems(c)') = Contents(ShadowItems(c))
             /\ contexts[contextCache[c]].held
                => Contents(LiveItems(c)') = Contents(LiveItems(c))]_vars

\* validateCart has recovered a cart that holds a line of quantity two
C26_Witness ==
    /\ last.op = "validateCart" /\ last.kind = "ok" /\ last.recovered
    /\ last.cartId \in Carts
    /\ \E i \in 1..Len(LiveItems(last.cartId)) : LiveItems(last.cartId)[i].quantity = 2

\* the sequence after an update of its element at position i to quantity q
WithQuantity(items, i, q) ==
    [items EXCEPT ![i] = [items[i] EXCEPT !.quantity = q,
                                          !.totalPrice = items[i].unitPrice * q]]

\* C27: a successful updateItem(cartId, itemId, q) changes only the addressed
\* item, in the live store and in the shadow: its quantity becomes q and its
\* total price its stored unit price times q; its id, product fields and
\* position, the number and order of the items and every other item stay.
C27_UpdateChangesOnlyAddressedItem ==
    [][\A c \in Carts :
          (Idle /\ last'.op = "updateItem" /\ last'.cartId = c /\ last'.kind = "ok")
          => /\ \E i \in 1..Len(LiveItems(c)) :
                   /\ LiveItems(c)[i].id = last'.itemId
                   /\ LiveItems(c)' = WithQuantity(LiveItems(c), i, last'.quantity)
             /\ \E i \in 1..Len(ShadowItems(c)) :
                   /\ ShadowItems(c)[i].id = last'.itemId
                   /\ ShadowItems(c)' = WithQuantity(ShadowItems(c), i, last'.quantity)
             /\ last'.view.items = ShadowItems(c)']_vars

\* the second of two different lines has been updated to a quantity of two
C27_Witness ==
    /\ last.op = "updateItem" /\ last.kind = "ok" /\ last.cartId \in Carts
    /\ Len(LiveItems(last.cartId)) = 2
    /\ LiveItems(last.cartId)[1].id # last.itemId
    /\ LiveItems(last.cartId)[1].quantity = 1
    /\ LiveItems(last.cartId)[2].id = last.itemId
    /\ LiveItems(last.cartId)[2].quantity = 2
    /\ LiveItems(last.cartId)[2].totalPrice = 2 * LiveItems(last.cartId)[2].unitPrice

\* C28: a successful removeItem(cartId, itemId) removes exactly one item, the
\* one with that id, from the live store and from the shadow: each sequence
\* loses exactly one element and the others keep their order and fields.
\* When the shadow holds no item with that id it stays as it is and the call
\* still succeeds.
C28_RemoveRemovesExactlyOne ==
    [][\A c \in Carts :
          (Idle /\ last'.op = "removeItem" /\ last'.cartId = c /\ last'.kind = "ok")
          => /\ \E i \in 1..Len(LiveItems(c)) :
                   /\ LiveItems(c)[i].id = last'.itemId
                   /\ LiveItems(c)' = Splice(LiveItems(c), i)
             /\ IF last'.itemId \in ItemIds(ShadowItems(c))
                THEN \E i \in 1..Len(ShadowItems(c)) :
                        /\ ShadowItems(c)[i].id = last'.itemId
                        /\ ShadowItems(c)' = Splice(ShadowItems(c), i)
                ELSE ShadowItems(c)' = ShadowItems(c)]_vars

\* the contexts of cart c that a recovery has superseded and the Provider still holds
SupersededContexts(c) ==
    {k \in 1..Len(contexts) : contexts[k].cartId = c /\ k # contextCache[c] /\ contexts[k].held}

\* the operations of the Orchestrator
OrchestratorOps == CartOps \cup {"initializeCart"}

\* C29: in every reachable state the context cache maps each initialized cart
\* to exactly one context, whose owning cart is this cart, and no two carts to
\* the same context; and no operation of the Orchestrator reads or writes a
\* context that a recovery has superseded: its record and its stored items
\* stay as they are.
C29_OneContextPerCart ==
    [][/\ \A c \in 1..Len(contextCache') :
             /\ contextCache'[c] \in 1..Len(contexts')
             /\ contexts'[contextCache'[c]].cartId = c
             /\ \A d \in 1..Len(contextCache') : contextCache'[d] = contextCache'[c] => d = c
       /\ \A c \in Carts :
             (Idle /\ last'.op \in OrchestratorOps)
             => \A k \in SupersededContexts(c) :
                   /\ contexts'[k] = contexts[k]
                   /\ arrays'[contexts[k].items] = arrays[contexts[k].items]]_vars

\* C30: getCartItems, addItem, updateItem and removeItem of the Provider fail
\* with SF_CONTEXT_EXPIRED exactly when the context id is not valid (a context
\* the Provider does not hold counting as expired); for updateItem and
\* removeItem this check comes before the item lookup; and a failed Provider
\* call leaves every context and every item store unchanged.
C30_ProviderFailsExactlyWhenInvalid ==
    [][(Idle /\ last'.op \in ProviderOps)
       => LET k == last'.contextId
              valid == /\ k \in 1..Len(contexts)
                       /\ contexts[k].held
                       /\ now < contexts[k].expiresAt
          IN  /\ (last'.kind = "Error" /\ last'.message = "SF_CONTEXT_EXPIRED") <=> ~valid
              /\ (last'.kind = "Error" /\ last'.message = "ITEM_NOT_FOUND")
                 => /\ valid
                    /\ last'.op \in {"sfClient.updateItem", "sfClient.removeItem"}
                    /\ last'.itemId \notin ItemIds(arrays[contexts[k].items])
              /\ last'.kind \in {"ok", "Error"}
              /\ last'.kind # "ok" => (contexts' = contexts /\ arrays' = arrays)]_vars

\* an update that names an item the context does not hold, at the very
\* instant the context expires: the expiry is what is reported
C30_Witness ==
    /\ last.op = "sfClient.updateItem" /\ last.message = "SF_CONTEXT_EXPIRED"
    /\ last.contextId \in 1..Len(contexts)
    /\ contexts[last.contextId].held
    /\ now = contexts[last.contextId].expiresAt
    /\ last.itemId \notin ItemIds(arrays[contexts[last.contextId].items])
    /\ arrays[contexts[last.contextId].items] # << >>

\* the contexts the Provider holds
HeldContexts == {k \in 1..Len(contexts) : contexts[k].held}

\* C31: cleanupExpiredContexts removes every context that is not valid and
\* none that is valid, each with its item store, returns the number of
\* contexts it removed and leaves the other contexts and item stores
\* unchanged; afterwards every context the Provider still holds is valid.
C31_SweepRemovesExactlyInvalid ==
    [][(Idle /\ last'.op = "cleanupExpiredContexts")
       => /\ \A k \in HeldContexts :
                IF now < contexts[k].expiresAt
                THEN /\ contexts'[k] = contexts[k]
                     /\ arrays'[contexts[k].items] = arrays[contexts[k].items]
                ELSE ~contexts'[k].held
          /\ \A k \in 1..Len(contexts) \ HeldContexts : ~contexts'[k].held
          /\ Len(contexts') = Len(contexts)
          /\ last'.quantity = Cardinality({k \in HeldContexts : ~(now < contexts[k].expiresAt)})
          /\ \A k \in HeldContexts' : now' < contexts'[k].expiresAt]_vars

\* C32: the Orchestrator and the Provider agree on expiry at every instant.
\* For every initialized cart, ensureValidContext performs a recovery exactly
\* when the Provider's isContextValid is false on the cached context, so the
\* context id it returns is one the Provider accepts at that instant.
C32_LayersAgreeOnExpiry ==
    [][\A c \in Carts :
          (Idle /\ last'.op \in CartOps /\ last'.cartId = c
                /\ (last'.op = "addItem" => last'.productId \in DOMAIN products))
          => /\ last'.recovered <=> ~isContextValid(contexts, contextCache[c], now)
             /\ isContextValid(contexts', contextCache'[c], now')]_vars

(* ---------------- C33 ---------------- *)
\* the call of caller p has passed the can-add check and has not failed since
PassedCheck(p) ==
    \/ inflight[p].pc = "awaitAdd"
    \/ inflight[p].pc = "done" /\ inflight[p].kind = "ok"

\* two callers have calls in flight on the same cart, both for a PHONE
PhonesInFlightTogether(p, q) ==
    /\ p # q
    /\ inflight[p].pc # "start" /\ inflight[q].pc # "start"
    /\ inflight[p].cartId = inflight[q].cartId
    /\ inflight[p].productId \in DOMAIN products
    /\ inflight[q].productId \in DOMAIN products
    /\ products[inflight[p].productId].type = "PHONE"
    /\ products[inflight[q].productId].type = "PHONE"

====
